---- MODULE Spec2Model ----
(***************************************************************************)
(* The derive and attribute macros of the `documented` crates:             *)
(*   - proc-macro/src/lib.rs          documented (first generation)         *)
(*   - documented-macros/src/lib.rs   documented, documented_fields,        *)
(*                                     documented_variants, docs_const      *)
(* together with the runtime queries their expansions answer               *)
(* (get_field_docs, get_variant_docs).                                     *)
(*                                                                         *)
(* A macro is a pure function from a parsed declaration to a token stream. *)
(* The state is the declaration handed to the macro (input), the expansion *)
(* it returned (output), and the last runtime query made against the       *)
(* expansion (query, result).                                              *)
(*                                                                         *)
(* Strings are sequences of one-character strings, so that trimming,       *)
(* splitting and joining are computed and not assumed.                     *)
(***************************************************************************)
EXTENDS Naturals, Sequences, FiniteSets

VARIABLES input, output, query, result

vars == <<input, output, query, result>>

(***************************************************************************)
(* Bounds.                                                                 *)
(***************************************************************************)
\* Size of a single declaration whose documentation is drawn character by
\* character: its attributes plus the characters of its doc payloads.
MaxLen == 5
\* Size of a container declaration: its members plus all attributes on it
\* and on its members.
MaxSize == 4

(***************************************************************************)
(* Option<T>: None is the empty sequence, Some(x) the one-element one.     *)
(***************************************************************************)
None == <<>>

Some(x) == <<x>>

IsSome(o) == o # <<>>

Unwrap(o) == o[1]

(***************************************************************************)
(* Text.                                                                   *)
(***************************************************************************)
Char == {"a", " ", "\n"}

\* char::is_whitespace, on the characters of Char
IsWhitespace(c) == c \in {" ", "\n"}

RECURSIVE TrimStart(_)
TrimStart(s) ==
    IF s = <<>> THEN s
    ELSE IF IsWhitespace(Head(s)) THEN TrimStart(Tail(s))
    ELSE s

RECURSIVE TrimEnd(_)
TrimEnd(s) ==
    IF s = <<>> THEN s
    ELSE IF IsWhitespace(s[Len(s)]) THEN TrimEnd(SubSeq(s, 1, Len(s) - 1))
    ELSE s

\* str::trim
Trim(s) == TrimEnd(TrimStart(s))

\* str::split('\n'): the pieces between the newlines; one more piece than
\* there are newlines, so the empty string gives one empty piece.
RECURSIVE SplitFrom(_, _, _)
SplitFrom(s, i, cur) ==
    IF i > Len(s) THEN <<cur>>
    ELSE IF s[i] = "\n" THEN <<cur>> \o SplitFrom(s, i + 1, <<>>)
    ELSE SplitFrom(s, i + 1, Append(cur, s[i]))

Split(s) == SplitFrom(s, 1, <<>>)

\* [String]::join("\n")
RECURSIVE Join(_)
Join(ss) ==
    IF ss = <<>> THEN <<>>
    ELSE IF Len(ss) = 1 THEN ss[1]
    ELSE ss[1] \o <<"\n">> \o Join(Tail(ss))

(***************************************************************************)
(* Attributes, as syn hands them to a macro.  A doc comment of either      *)
(* style reaches the macro as the name-value attribute doc = "<text>".     *)
(***************************************************************************)
\* #[doc = "<s>"], /// <s>, /** <s> */
DocAttr(s) ==
    [path |-> "doc", meta |-> "NameValue", lit |-> TRUE, value |-> s, opts |-> <<>>]

\* #[doc = <an expression that is no string literal>]
DocNonLit ==
    [path |-> "doc", meta |-> "NameValue", lit |-> FALSE, value |-> <<>>, opts |-> <<>>]

\* #[doc(hidden)]: the path is doc, the attribute is no name-value
DocHidden ==
    [path |-> "doc", meta |-> "List", lit |-> FALSE, value |-> <<>>, opts |-> <<>>]

\* #[path = "<s>"]: a name-value attribute that is no documentation
PathAttr(s) ==
    [path |-> "path", meta |-> "NameValue", lit |-> TRUE, value |-> s, opts |-> <<>>]

\* #[<name>(<opts>)], name one of documented, documented_fields,
\* documented_variants
CustAttr(name, opts) ==
    [path |-> name, meta |-> "List", lit |-> FALSE, value |-> <<>>, opts |-> opts]

\* One `key = value` of a directive.
BoolOpt(k, b) == [key |-> k, type |-> "bool", b |-> b, s |-> <<>>]

StrOpt(k, s) == [key |-> k, type |-> "str", b |-> FALSE, s |-> s]

(***************************************************************************)
(* syn::Result<T>.                                                         *)
(***************************************************************************)
Ok(v) == [tag |-> "Ok", val |-> v, err |-> ""]

Err(e) == [tag |-> "Err", val |-> None, err |-> e]

IsOk(r) == r.tag = "Ok"

(***************************************************************************)
(* config: DeriveConfig and the customisations a directive carries.        *)
(***************************************************************************)
\* DeriveConfig::default()
DeriveConfig_default == [trim |-> TRUE, default |-> None]

\* No option set.
NoCustomisations == [trim |-> None, default |-> None]

\* DeriveConfig::with_customisations: each option a directive sets
\* overrides the configuration's, the others are kept.
with_customisations(config, c) ==
    [trim    |-> IF IsSome(c.trim) THEN Unwrap(c.trim) ELSE config.trim,
     default |-> IF IsSome(c.default) THEN c.default ELSE config.default]

\* The options of one directive: an unknown key, a key given twice or a
\* value of the wrong type is an error.
RECURSIVE parse_customisations(_, _)
parse_customisations(opts, acc) ==
    IF opts = <<>> THEN Ok(acc)
    ELSE LET o == Head(opts) IN
         IF o.key \notin {"trim", "default"}
         THEN Err("unknown option")
         ELSE IF IsSome(acc[o.key])
         THEN Err("duplicate option")
         ELSE IF o.key = "trim" /\ o.type # "bool"
         THEN Err("expected a boolean literal")
         ELSE IF o.key = "default" /\ o.type # "str"
         THEN Err("expected a string literal")
         ELSE parse_customisations(
                  Tail(opts),
                  IF o.key = "trim"
                  THEN [acc EXCEPT !.trim = Some(o.b)]
                  ELSE [acc EXCEPT !.default = Some(o.s)])

\* Directives of the same scope are merged left to right, a later one
\* overriding an earlier one.
merge_customisations(a, b) ==
    [trim    |-> IF IsSome(b.trim) THEN b.trim ELSE a.trim,
     default |-> IF IsSome(b.default) THEN b.default ELSE a.default]

RECURSIVE merge_attrs(_, _)
merge_attrs(as, acc) ==
    IF as = <<>> THEN Ok(Some(acc))
    ELSE LET c == parse_customisations(Head(as).opts, NoCustomisations) IN
         IF ~IsOk(c) THEN Err(c.err)
         ELSE merge_attrs(Tail(as), merge_customisations(acc, c.val))

\* get_customisations_from_attrs(attrs, attr_name): Ok(None) without a
\* directive named attr_name, Ok(Some(c)) with the merged options of the
\* directives, Err for a malformed one.
get_customisations_from_attrs(attrs, attr_name) ==
    LET named == SelectSeq(attrs, LAMBDA a : a.path = attr_name) IN
    IF named = <<>> THEN Ok(None) ELSE merge_attrs(named, NoCustomisations)

(***************************************************************************)
(* util::get_docs.                                                         *)
(***************************************************************************)
\* The payloads of the documentation attributes, in declaration order.
doc_values(attrs) ==
    SelectSeq(attrs, LAMBDA a : a.meta = "NameValue" /\ a.path = "doc")

\* The lines of the payloads, each trimmed.
RECURSIVE trimmed_lines(_)
trimmed_lines(lits) ==
    IF lits = <<>> THEN <<>>
    ELSE LET lines == Split(Head(lits).value) IN
         [i \in 1..Len(lines) |-> Trim(lines[i])] \o trimmed_lines(Tail(lits))

\* get_docs(attrs, trim): Err if a payload is no string literal, Ok(None)
\* without documentation, else Ok(Some(normalised documentation)).
get_docs(attrs, trim) ==
    LET lits == doc_values(attrs) IN
    IF \E i \in 1..Len(lits) : ~lits[i].lit
    THEN Err("Doc comment is not a string literal")
    ELSE IF lits = <<>> THEN Ok(None)
    ELSE IF trim THEN Ok(Some(Join(trimmed_lines(lits))))
    ELSE Ok(Some(Join([i \in 1..Len(lits) |-> lits[i].value])))

(***************************************************************************)
(* Expansions.  A macro returns either a compile_error! invocation and     *)
(* nothing else, or the implementation it generated.                       *)
(***************************************************************************)
NoOutput ==
    [kind |-> "none", trait |-> "", msg |-> "", DOCS |-> <<>>,
     FIELD_DOCS |-> <<>>, PHF |-> {}, match_arms |-> <<>>,
     item |-> None, const_vis |-> "", const_name |-> <<>>]

\* Error::into_compile_error().into()
compile_error(msg) == [NoOutput EXCEPT !.kind = "compile_error", !.msg = msg]

(***************************************************************************)
(* proc-macro/src/lib.rs: documented.                                      *)
(***************************************************************************)
\* maybe_str_literals looking at the first payload only.
maybe_str_literals_first_only(values) ==
    IF values # <<>> /\ ~values[1].lit
    THEN Err("Doc comment is not a string literal")
    ELSE Ok([i \in 1..Len(values) |-> Trim(values[i].value)])

\* Each payload trimmed as a whole, or the first payload that is no string
\* literal.
maybe_str_literals(values) ==
    IF \E i \in 1..Len(values) : ~values[i].lit
    THEN Err("Doc comment is not a string literal")
    ELSE Ok([i \in 1..Len(values) |-> Trim(values[i].value)])

proc_macro_documented(inp) ==
    LET lits == maybe_str_literals(doc_values(inp.attrs)) IN
    IF ~IsOk(lits) THEN compile_error(lits.err)
    ELSE IF Len(lits.val) = 0
    THEN compile_error("No doc comment found on this type")
    ELSE [NoOutput EXCEPT !.kind = "impl", !.trait = "inherent",
                          !.DOCS = Join(lits.val)]

(***************************************************************************)
(* documented-macros/src/lib.rs.                                           *)
(***************************************************************************)
\* container_config as built without the `customise` feature: the
\* directive is never read.
container_config_not_customise(attrs, attr_name) == Ok(DeriveConfig_default)

\* The configuration of the container scope: the default, overridden by
\* the directive on the container.
container_config(attrs, attr_name) ==
    LET c == get_customisations_from_attrs(attrs, attr_name) IN
    IF ~IsOk(c) THEN Err(c.err)
    ELSE IF IsSome(c.val)
    THEN Ok(with_customisations(DeriveConfig_default, Unwrap(c.val)))
    ELSE Ok(DeriveConfig_default)

\* member_config laying the member's directive over the default instead of
\* over the container's configuration.
member_config_over_default(base_config, attrs, attr_name) ==
    LET c == get_customisations_from_attrs(attrs, attr_name) IN
    IF ~IsOk(c) THEN Err(c.err)
    ELSE IF IsSome(c.val)
    THEN Ok(with_customisations(DeriveConfig_default, Unwrap(c.val)))
    ELSE Ok(base_config)

\* The configuration of one member: the container's, overridden by the
\* directive on the member.  (The same lines in documented_variants.)
member_config(base_config, attrs, attr_name) ==
    LET c == get_customisations_from_attrs(attrs, attr_name) IN
    IF ~IsOk(c) THEN Err(c.err)
    ELSE IF IsSome(c.val)
    THEN Ok(with_customisations(base_config, Unwrap(c.val)))
    ELSE Ok(base_config)

\* Iterator::collect::<syn::Result<Vec<_>>>(): the values if every item is
\* Ok, else the first error and none of the values.
RECURSIVE collect_from(_, _)
collect_from(rs, acc) ==
    IF rs = <<>> THEN Ok(acc)
    ELSE IF ~IsOk(Head(rs)) THEN Err(Head(rs).err)
    ELSE collect_from(Tail(rs), Append(acc, Head(rs).val))

\* collect keeping the Ok items and dropping the errors (a filter_map).
collect_filter_map(rs) ==
    Ok(LET oks == SelectSeq(rs, IsOk) IN [i \in 1..Len(oks) |-> oks[i].val])

collect(rs) == collect_from(rs, <<>>)

\* documented emitting an empty DOCS for a type without documentation.
documented_unwrap_or_default(inp) ==
    LET config == container_config(inp.attrs, "documented") IN
    IF ~IsOk(config) THEN compile_error(config.err)
    ELSE LET docs == get_docs(inp.attrs, config.val.trim) IN
         IF ~IsOk(docs) THEN compile_error(docs.err)
         ELSE [NoOutput EXCEPT !.kind = "impl", !.trait = "Documented",
                               !.DOCS = IF IsSome(docs.val) THEN Unwrap(docs.val)
                                        ELSE <<>>]

documented(inp) ==
    LET config == container_config(inp.attrs, "documented") IN
    IF ~IsOk(config) THEN compile_error(config.err)
    ELSE LET docs == get_docs(inp.attrs, config.val.trim) IN
         IF ~IsOk(docs) THEN compile_error(docs.err)
         ELSE IF ~IsSome(docs.val) THEN compile_error("Missing doc comments")
         ELSE [NoOutput EXCEPT !.kind = "impl", !.trait = "Documented",
                               !.DOCS = Unwrap(docs.val)]

\* (ident, attrs) of every variant of an enum, every field of a struct or a
\* union.
fields_attrs(inp) ==
    [i \in 1..Len(inp.members) |->
        [ident |-> inp.members[i].ident, attrs |-> inp.members[i].attrs]]

\* The closure run on every member: its configuration, then its docs.
field_docs_of(base_config, f) ==
    LET config == member_config(base_config, f.attrs, "documented_fields") IN
    IF ~IsOk(config) THEN Err(config.err)
    ELSE LET d == get_docs(f.attrs, config.val.trim) IN
         IF ~IsOk(d) THEN Err(d.err)
         ELSE Ok([ident |-> f.ident, docs |-> d.val])

\* field_docs_tokenised emitting a token only for the documented members.
field_docs_tokenised_flatten(field_docs) == SelectSeq(field_docs, IsSome)

\* Some(#c) for Some(c), None for None, one token per member.
field_docs_tokenised(field_docs) ==
    [i \in 1..Len(field_docs) |->
        IF IsSome(field_docs[i]) THEN Some(Unwrap(field_docs[i])) ELSE None]

\* phf_match_arms counting the positions from 1.
phf_match_arms_from_one(field_idents) ==
    {<<Unwrap(field_idents[i]), i>> :
        i \in {j \in 1..Len(field_idents) : IsSome(field_idents[j])}}

\* `#ident => #i,` for every member that has a name, i its position
\* (from 0) among all members.
phf_match_arms(field_idents) ==
    {<<Unwrap(field_idents[i + 1]), i>> :
        i \in {j \in 0..(Len(field_idents) - 1) : IsSome(field_idents[j + 1])}}

documented_fields(inp) ==
    LET base_config == container_config(inp.attrs, "documented_fields") IN
    IF ~IsOk(base_config) THEN compile_error(base_config.err)
    ELSE LET fa == fields_attrs(inp)
             t  == collect([i \in 1..Len(fa) |->
                                field_docs_of(base_config.val, fa[i])])
         IN  IF ~IsOk(t) THEN compile_error(t.err)
             ELSE LET field_idents == [i \in 1..Len(t.val) |-> t.val[i].ident]
                      field_docs   == [i \in 1..Len(t.val) |-> t.val[i].docs]
                  IN  [NoOutput EXCEPT
                          !.kind = "impl", !.trait = "DocumentedFields",
                          !.FIELD_DOCS = field_docs_tokenised(field_docs),
                          !.PHF = phf_match_arms(field_idents)]

\* The closure run on every variant: its configuration, then its docs.
variant_docs_of(base_config, v) ==
    LET config == member_config(base_config, v.attrs, "documented_variants") IN
    IF ~IsOk(config) THEN Err(config.err)
    ELSE LET d == get_docs(v.attrs, config.val.trim) IN
         IF ~IsOk(d) THEN Err(d.err)
         ELSE Ok([ident |-> Unwrap(v.ident), fields |-> v.fields, docs |-> d.val])

\* match_arms answering Ok("") for a variant without documentation.
match_arms_unwrap_or_default(variants_docs) ==
    [i \in 1..Len(variants_docs) |->
        LET v == variants_docs[i] IN
        [ident  |-> v.ident,
         fields |-> v.fields,
         body   |-> [tag |-> "Ok",
                     val |-> IF IsSome(v.docs) THEN Unwrap(v.docs) ELSE <<>>,
                     name |-> ""]]]

\* One arm per variant: the pattern of the variant's shape, and its docs or
\* the NoDocComments error that names it.
match_arms(variants_docs) ==
    [i \in 1..Len(variants_docs) |->
        LET v == variants_docs[i] IN
        [ident  |-> v.ident,
         fields |-> v.fields,
         body   |-> IF IsSome(v.docs)
                    THEN [tag |-> "Ok", val |-> Unwrap(v.docs), name |-> ""]
                    ELSE [tag |-> "NoDocComments", val |-> <<>>, name |-> v.ident]]]

\* documented_variants without the let-else on Data::Enum: the members of
\* any declaration are taken for variants.
documented_variants_any_shape(inp) ==
    LET base_config == container_config(inp.attrs, "documented_variants") IN
    IF ~IsOk(base_config) THEN compile_error(base_config.err)
    ELSE LET t == collect([i \in 1..Len(inp.members) |->
                              variant_docs_of(base_config.val, inp.members[i])])
         IN  IF ~IsOk(t) THEN compile_error(t.err)
             ELSE [NoOutput EXCEPT
                      !.kind = "impl", !.trait = "DocumentedVariants",
                      !.match_arms = match_arms(t.val)]

documented_variants(inp) ==
    LET base_config == container_config(inp.attrs, "documented_variants") IN
    IF ~IsOk(base_config) THEN compile_error(base_config.err)
    ELSE IF inp.shape # "enum"
    THEN compile_error("DocumentedVariants can only be used on enums")
    ELSE LET t == collect([i \in 1..Len(inp.members) |->
                              variant_docs_of(base_config.val, inp.members[i])])
         IN  IF ~IsOk(t) THEN compile_error(t.err)
             ELSE [NoOutput EXCEPT
                      !.kind = "impl", !.trait = "DocumentedVariants",
                      !.match_arms = match_arms(t.val)]

(***************************************************************************)
(* docs_const.                                                             *)
(***************************************************************************)
\* AttrConfig::default()
AttrConfig_default == [trim |-> TRUE, custom_vis |-> None, custom_name |-> None]

\* The arguments of #[docs_const(...)], parsed as AttrCustomisations and
\* laid over the default: vis, name and trim, each at most once.
RECURSIVE attr_config(_, _, _)
attr_config(opts, seen, acc) ==
    IF opts = <<>> THEN Ok(acc)
    ELSE LET o == Head(opts) IN
         IF o.key \notin {"trim", "name", "vis"}
         THEN Err("unknown option")
         ELSE IF o.key \in seen
         THEN Err("duplicate option")
         ELSE IF o.type # (CASE o.key = "trim" -> "bool"
                             [] o.key = "name" -> "str"
                             [] OTHER -> "vis")
         THEN Err("unexpected value")
         ELSE attr_config(
                  Tail(opts), seen \cup {o.key},
                  CASE o.key = "trim" -> [acc EXCEPT !.trim = o.b]
                    [] o.key = "name" -> [acc EXCEPT !.custom_name = Some(o.s)]
                    [] OTHER -> [acc EXCEPT !.custom_vis = Some(o.s[1])])

IsLower(c) == c \in {"a", "b"}

IsUpper(c) == c \in {"A", "B"}

to_uppercase(c) == CASE c = "a" -> "A" [] c = "b" -> "B" [] OTHER -> c

\* The words of an identifier: cut at every underscore (dropped) and
\* between a lowercase letter and the uppercase letter after it.
RECURSIVE words_from(_, _, _)
words_from(s, i, cur) ==
    LET flush == IF cur = <<>> THEN <<>> ELSE <<cur>> IN
    IF i > Len(s) THEN flush
    ELSE IF s[i] = "_" THEN flush \o words_from(s, i + 1, <<>>)
    ELSE IF cur # <<>> /\ IsLower(cur[Len(cur)]) /\ IsUpper(s[i])
    THEN flush \o words_from(s, i + 1, <<s[i]>>)
    ELSE words_from(s, i + 1, Append(cur, s[i]))

RECURSIVE join_words(_)
join_words(ws) ==
    IF ws = <<>> THEN <<>>
    ELSE IF Len(ws) = 1 THEN ws[1]
    ELSE ws[1] \o <<"_">> \o join_words(Tail(ws))

\* str::to_case(Case::ScreamingSnake)
to_case_ScreamingSnake(s) ==
    LET joined == join_words(words_from(s, 1, <<>>)) IN
    [i \in 1..Len(joined) |-> to_uppercase(joined[i])]

\* Ident::new panics on a string that is not an identifier.
IsIdent(s) ==
    /\ s # <<>>
    /\ \A i \in 1..Len(s) : ~IsWhitespace(s[i])

\* format!("{}_DOCS", item_name.to_case(Case::ScreamingSnake))
default_const_name(item_name) ==
    to_case_ScreamingSnake(item_name) \o <<"_", "D", "O", "C", "S">>

\* docs_const with the suffix put after a custom name too.
docs_const_suffix_custom(inp) ==
    LET config == attr_config(inp.args, {}, AttrConfig_default) IN
    IF ~IsOk(config) THEN compile_error(config.err)
    ELSE LET docs == get_docs(inp.attrs, config.val.trim) IN
         IF ~IsOk(docs) THEN compile_error(docs.err)
         ELSE IF ~IsSome(docs.val) THEN compile_error("Missing doc comments")
         ELSE LET const_vis == IF IsSome(config.val.custom_vis)
                               THEN Unwrap(config.val.custom_vis)
                               ELSE inp.vis
                  const_name == IF IsSome(config.val.custom_name)
                                THEN Unwrap(config.val.custom_name)
                                         \o <<"_", "D", "O", "C", "S">>
                                ELSE default_const_name(inp.ident)
              IN  IF ~IsIdent(const_name)
                  THEN [NoOutput EXCEPT !.kind = "panic"]
                  ELSE [NoOutput EXCEPT
                           !.kind = "impl", !.trait = "docs_const",
                           !.item = Some([ident |-> inp.ident, vis |-> inp.vis,
                                          attrs |-> inp.attrs]),
                           !.const_vis = const_vis,
                           !.const_name = const_name,
                           !.DOCS = Unwrap(docs.val)]

docs_const(inp) ==
    LET config == attr_config(inp.args, {}, AttrConfig_default) IN
    IF ~IsOk(config) THEN compile_error(config.err)
    ELSE LET docs == get_docs(inp.attrs, config.val.trim) IN
         IF ~IsOk(docs) THEN compile_error(docs.err)
         ELSE IF ~IsSome(docs.val) THEN compile_error("Missing doc comments")
         ELSE LET const_vis == IF IsSome(config.val.custom_vis)
                               THEN Unwrap(config.val.custom_vis)
                               ELSE inp.vis
                  const_name == IF IsSome(config.val.custom_name)
                                THEN Unwrap(config.val.custom_name)
                                ELSE default_const_name(inp.ident)
              IN  IF ~IsIdent(const_name)
                  THEN [NoOutput EXCEPT !.kind = "panic"]
                  ELSE [NoOutput EXCEPT
                           !.kind = "impl", !.trait = "docs_const",
                           !.item = Some([ident |-> inp.ident, vis |-> inp.vis,
                                          attrs |-> inp.attrs]),
                           !.const_vis = const_vis,
                           !.const_name = const_name,
                           !.DOCS = Unwrap(docs.val)]

(***************************************************************************)
(* The runtime queries against an expansion.                               *)
(***************************************************************************)
NoResult == [tag |-> "none", val |-> <<>>, name |-> ""]

\* PHF.get(field_name).copied()
documented_get_index(out, field_name) ==
    IF \E arm \in out.PHF : arm[1] = field_name
    THEN Some((CHOOSE arm \in out.PHF : arm[1] = field_name)[2])
    ELSE None

\* DocumentedFields::get_field_docs: the index of the name, then the entry
\* of FIELD_DOCS at that index.
get_field_docs(out, field_name) ==
    LET index == documented_get_index(out, field_name) IN
    IF ~IsSome(index)
    THEN [tag |-> "NoSuchField", val |-> <<>>, name |-> field_name]
    ELSE IF Unwrap(index) + 1 \notin DOMAIN out.FIELD_DOCS
    THEN [tag |-> "panic", val |-> <<>>, name |-> field_name]
    ELSE LET d == out.FIELD_DOCS[Unwrap(index) + 1] IN
         IF IsSome(d) THEN [tag |-> "Ok", val |-> Unwrap(d), name |-> ""]
         ELSE [tag |-> "NoDocComments", val |-> <<>>, name |-> field_name]

\* Self::#ident, Self::#ident(..), Self::#ident{..} against a value
arm_matches(arm, self) == arm.ident = self.variant /\ arm.fields = self.fields

\* match self { arms }: the body of the first arm that matches
RECURSIVE match_self(_, _)
match_self(arms, self) ==
    IF arms = <<>> THEN [tag |-> "no_arm", val |-> <<>>, name |-> self.variant]
    ELSE IF arm_matches(Head(arms), self) THEN Head(arms).body
    ELSE match_self(Tail(arms), self)

get_variant_docs(out, self) == match_self(out.match_arms, self)

(***************************************************************************)
(* The declarations the macros are run on.  A declaration is written as a  *)
(* word of tokens, one token per attribute, member or character.           *)
(***************************************************************************)
Item(derive, ident, vis, attrs, args) ==
    [derive |-> derive, shape |-> "struct", ident |-> ident, vis |-> vis,
     attrs |-> attrs, members |-> <<>>, args |-> args]

\* A single declaration, character by character: "#doc" opens a doc
\* attribute with an empty payload and each character after it extends the
\* payload; the other tokens are attributes of their own.
TextTokens == Char \cup {"#doc", "#nonlit", "#hidden", "#path", "#trim"}

WellFormedText(w) ==
    \A i \in 1..Len(w) :
        w[i] \in Char => i > 1 /\ w[i - 1] \in Char \cup {"#doc"}

RECURSIVE TextAttrs(_, _, _)
TextAttrs(w, i, acc) ==
    IF i > Len(w) THEN acc
    ELSE TextAttrs(w, i + 1,
            CASE w[i] \in Char ->
                     [acc EXCEPT ![Len(acc)].value = Append(@, w[i])]
              [] w[i] = "#doc"    -> Append(acc, DocAttr(<<>>))
              [] w[i] = "#nonlit" -> Append(acc, DocNonLit)
              [] w[i] = "#hidden" -> Append(acc, DocHidden)
              [] w[i] = "#path"   -> Append(acc, PathAttr(<<"a">>))
              [] OTHER -> Append(acc, CustAttr("documented",
                                               <<BoolOpt("trim", FALSE)>>)))

\* The arguments of #[docs_const(...)]: at most two options.
ArgOpts ==
    {BoolOpt("trim", FALSE), StrOpt("name", <<"B">>), StrOpt("name", <<" ">>),
     StrOpt("trim", <<"B">>),
     [key |-> "vis", type |-> "vis", b |-> FALSE, s |-> <<"pub">>],
     BoolOpt("bogus", TRUE)}

Args == {<<>>} \cup {<<o>> : o \in ArgOpts} \cup {<<o, p>> : o, p \in ArgOpts}

ItemNames == {<<"a", "_", "b">>, <<"A", "a">>, <<"a", "B">>, <<"_", "a">>}

ItemAttrs ==
    {<<>>, <<DocAttr(<<" ", "a">>)>>, <<DocNonLit>>,
     <<DocAttr(<<" ", "a", "\n", " ", "a", " ">>), DocHidden, DocAttr(<<"a", " ">>)>>}

\* A container: a struct (of named fields), a tuple struct, a union or an
\* enum.  "member" opens a member; the other tokens are attributes, of the
\* container before the first member and of the open member after it.
ContainerTokens ==
    {"member", "doc_a", "doc_b", "nonlit", "trim_false", "trim_true",
     "default", "bogus"}

\* The attribute a token stands for; h is the name of the derive's directive.
AttrOfToken(h, t) ==
    CASE t = "doc_a"      -> DocAttr(<<" ", "a">>)
      [] t = "doc_b"      -> DocAttr(<<" ", "b">>)
      [] t = "nonlit"     -> DocNonLit
      [] t = "trim_false" -> CustAttr(h, <<BoolOpt("trim", FALSE)>>)
      [] t = "trim_true"  -> CustAttr(h, <<BoolOpt("trim", TRUE)>>)
      [] t = "default"    -> CustAttr(h, <<StrOpt("default", <<"W">>)>>)
      [] OTHER            -> CustAttr(h, <<BoolOpt("bogus", TRUE)>>)

\* The attribute lists of a word: the container's, then one per member.
RECURSIVE Groups(_, _, _, _)
Groups(h, w, i, cur) ==
    IF i > Len(w) THEN <<cur>>
    ELSE IF w[i] = "member" THEN <<cur>> \o Groups(h, w, i + 1, <<>>)
    ELSE Groups(h, w, i + 1, Append(cur, AttrOfToken(h, w[i])))

AllIdents == <<"first", "second", "third", "fourth", "fifth", "sixth">>

FieldsKinds == <<"Unit", "Unnamed", "Named">>

\* The variants of an enum take the three shapes in turn, starting at
\* offset o.
Container(derive, shape, o, w) ==
    LET g == Groups(derive, w, 1, <<>>) IN
    [derive |-> derive, shape |-> shape, ident |-> <<"A">>, vis |-> "inherited",
     attrs |-> g[1],
     members |-> [i \in 1..(Len(g) - 1) |->
                    [ident  |-> IF shape = "tuple" THEN None ELSE Some(AllIdents[i]),
                     fields |-> IF shape = "enum"
                                THEN FieldsKinds[((i + o) % 3) + 1]
                                ELSE "Named",
                     attrs  |-> g[i + 1]]],
     args |-> <<>>]

(***************************************************************************)
(* The state machine.                                                      *)
(***************************************************************************)
NoQuery == [fn |-> "none", name |-> "", self |-> <<>>]

InitText ==
    \E n \in 0..MaxLen : \E w \in [1..n -> TextTokens] :
        /\ WellFormedText(w)
        /\ \E d \in {"proc_macro_documented", "documented"} :
               input = Item(d, <<"A">>, "inherited", TextAttrs(w, 1, <<>>), <<>>)

InitConst ==
    \E n \in ItemNames, v \in {"inherited", "pub"}, as \in ItemAttrs, args \in Args :
        input = Item("docs_const", n, v, as, args)

InitFields ==
    \E n \in 0..MaxSize : \E w \in [1..n -> ContainerTokens] :
        \E shape \in {"struct", "tuple", "union", "enum"} :
            /\ shape = "union" => "member" \in {w[i] : i \in 1..n}
            /\ input = Container("documented_fields", shape, 0, w)

InitVariants ==
    \E n \in 0..MaxSize : \E w \in [1..n -> ContainerTokens] :
        \/ \E o \in 0..2 : input = Container("documented_variants", "enum", o, w)
        \/ input = Container("documented_variants", "struct", 0, w)
        \/ /\ "member" \in {w[i] : i \in 1..n}
           /\ input = Container("documented_variants", "union", 0, w)

Init ==
    /\ InitText \/ InitConst \/ InitFields \/ InitVariants
    /\ output = NoOutput
    /\ query = NoQuery
    /\ result = NoResult

\* The compiler expands the derive or the attribute on the declaration.
DeriveDocumentedProcMacro ==
    /\ input.derive = "proc_macro_documented"
    /\ output.kind = "none"
    /\ output' = proc_macro_documented(input)
    /\ UNCHANGED <<input, query, result>>

DeriveDocumented ==
    /\ input.derive = "documented"
    /\ output.kind = "none"
    /\ output' = documented(input)
    /\ UNCHANGED <<input, query, result>>

DeriveDocumentedFields ==
    /\ input.derive = "documented_fields"
    /\ output.kind = "none"
    /\ output' = documented_fields(input)
    /\ UNCHANGED <<input, query, result>>

DeriveDocumentedVariants ==
    /\ input.derive = "documented_variants"
    /\ output.kind = "none"
    /\ output' = documented_variants(input)
    /\ UNCHANGED <<input, query, result>>

AttrDocsConst ==
    /\ input.derive = "docs_const"
    /\ output.kind = "none"
    /\ output' = docs_const(input)
    /\ UNCHANGED <<input, query, result>>

\* The names asked of get_field_docs: every declared name, and one that is
\* never declared.
QueryNames == {AllIdents[i] : i \in 1..Len(input.members)} \cup {"gotcha"}

GetFieldDocs(field_name) ==
    /\ output.kind = "impl"
    /\ output.trait = "DocumentedFields"
    /\ query' = [fn |-> "get_field_docs", name |-> field_name, self |-> <<>>]
    /\ result' = get_field_docs(output, field_name)
    /\ UNCHANGED <<input, output>>

\* The values of the enum: a variant and a payload.
Values ==
    IF input.shape # "enum" THEN {}
    ELSE {[variant |-> Unwrap(input.members[i].ident),
           fields  |-> input.members[i].fields,
           payload |-> p] :
             i \in 1..Len(input.members), p \in {0, 1}}

GetVariantDocs(self) ==
    /\ output.kind = "impl"
    /\ output.trait = "DocumentedVariants"
    /\ query' = [fn |-> "get_variant_docs", name |-> self.variant, self |-> <<self>>]
    /\ result' = get_variant_docs(output, self)
    /\ UNCHANGED <<input, output>>

Next ==
    \/ DeriveDocumentedProcMacro
    \/ DeriveDocumented
    \/ DeriveDocumentedFields
    \/ DeriveDocumentedVariants
    \/ AttrDocsConst
    \/ \E field_name \in QueryNames : GetFieldDocs(field_name)
    \/ \E self \in Values : GetVariantDocs(self)

Spec == Init /\ [][Next]_vars

(***************************************************************************)
(* Vocabulary of the properties, read off the declaration alone.           *)
(***************************************************************************)
Expanded == output.kind # "none"

Members == input.members

\* The doc fragments of a declaration: the payloads of its doc = <value>
\* attributes, in declaration order.
RECURSIVE Fragments(_)
Fragments(attrs) ==
    IF attrs = <<>> THEN <<>>
    ELSE IF Head(attrs).path = "doc" /\ Head(attrs).meta = "NameValue"
    THEN <<Head(attrs)>> \o Fragments(Tail(attrs))
    ELSE Fragments(Tail(attrs))

IsDocumented(attrs) == Fragments(attrs) # <<>>

\* The value the directives named h on a declaration give to key k: that of
\* the last directive that sets it, None if none does.
DirectiveValue(attrs, h, k) ==
    LET setters == {i \in 1..Len(attrs) :
                      /\ attrs[i].path = h
                      /\ \E j \in 1..Len(attrs[i].opts) : attrs[i].opts[j].key = k}
    IN  IF setters = {} THEN None
        ELSE LET last == CHOOSE i \in setters : \A j \in setters : j <= i
                 j    == CHOOSE j \in 1..Len(attrs[last].opts) :
                             attrs[last].opts[j].key = k
             IN  Some(IF k = "trim" THEN attrs[last].opts[j].b
                      ELSE attrs[last].opts[j].s)

\* Default, overridden by the container, overridden by the member.
Resolved(member_attrs, k, dflt) ==
    LET m == DirectiveValue(member_attrs, input.derive, k)
        c == DirectiveValue(input.attrs, input.derive, k)
    IN  IF IsSome(m) THEN Unwrap(m) ELSE IF IsSome(c) THEN Unwrap(c) ELSE dflt

EffectiveTrim(member_attrs) == Resolved(member_attrs, "trim", TRUE)

\* The normalised documentation of member i, None if it has none.
MemberDocs(i) == get_docs(Members[i].attrs, EffectiveTrim(Members[i].attrs)).val

\* The members named n.
Named(n) == {i \in 1..Len(Members) : Members[i].ident = Some(n)}

FieldQuery == query.fn = "get_field_docs"

VariantQuery == query.fn = "get_variant_docs"

OkResult(d) == [tag |-> "Ok", val |-> d, name |-> ""]

ErrResult(kind, n) == [tag |-> kind, val |-> <<>>, name |-> n]

C2_TrimResolution ==
    /\ (input.derive = "documented_fields" /\ output.kind = "impl") =>
           \A i \in 1..Len(Members) :
               IsDocumented(Members[i].attrs) =>
                   /\ i \in DOMAIN output.FIELD_DOCS
                   /\ output.FIELD_DOCS[i] = MemberDocs(i)
    /\ (input.derive = "documented_variants" /\ output.kind = "impl") =>
           \A i \in 1..Len(Members) :
               IsDocumented(Members[i].attrs) =>
                   /\ i \in DOMAIN output.match_arms
                   /\ output.match_arms[i].body = OkResult(Unwrap(MemberDocs(i)))

\* The container turns trimming off, the member turns it on again and is
\* trimmed.
C2_Witness ==
    /\ input.derive = "documented_fields"
    /\ output.kind = "impl"
    /\ DirectiveValue(input.attrs, "documented_fields", "trim") = Some(FALSE)
    /\ Len(Members) = 1
    /\ DirectiveValue(Members[1].attrs, "documented_fields", "trim") = Some(TRUE)
    /\ output.FIELD_DOCS = <<Some(<<"a">>)>>

(***************************************************************************)
(* C3.  A `default` directive on the container or on the member makes      *)
(* Err(NoDocComments) unreachable for that member: an undocumented member  *)
(* answers Ok(member default), else Ok(container default); a documented    *)
(* member still answers its own documentation.                             *)
(***************************************************************************)
HasDefault(i) ==
    \/ IsSome(DirectiveValue(Members[i].attrs, input.derive, "default"))
    \/ IsSome(DirectiveValue(input.attrs, input.derive, "default"))

C3_DefaultDirective ==
    (FieldQuery \/ VariantQuery) =>
        \A i \in Named(query.name) :
            HasDefault(i) =>
                result = OkResult(IF IsDocumented(Members[i].attrs)
                                  THEN Unwrap(MemberDocs(i))
                                  ELSE Resolved(Members[i].attrs, "default", <<>>))

(***************************************************************************)
(* Single declarations.                                                    *)
(***************************************************************************)
SingleItem == input.derive \in {"proc_macro_documented", "documented", "docs_const"}

\* The trim flag of a single declaration: the first-generation derive has
\* none and always trims, derive(Documented) reads the directive on the
\* type, docs_const its own arguments.
ItemTrim ==
    CASE input.derive = "documented" -> EffectiveTrim(<<>>)
      [] input.derive = "docs_const" ->
             ~\E j \in 1..Len(input.args) :
                 input.args[j].key = "trim" /\ ~input.args[j].b
      [] OTHER -> TRUE

\* No line of d starts or ends with whitespace.
LinesTrimmed(d) ==
    LET lines == Split(d) IN
    \A i \in 1..Len(lines) :
        \/ lines[i] = <<>>
        \/ /\ ~IsWhitespace(lines[i][1])
           /\ ~IsWhitespace(lines[i][Len(lines[i])])

\* The payloads of the fragments as written, joined by a newline.
RawJoin(attrs) ==
    LET f == Fragments(attrs) IN Join([i \in 1..Len(f) |-> f[i].value])

(***************************************************************************)
(* C4.  With at least one doc fragment and trim = true, no line of the     *)
(* normalised documentation starts or ends with whitespace: the lines are  *)
(* trimmed one by one, the inner lines of a multi-line payload included.   *)
(***************************************************************************)
C4_EveryLineTrimmed ==
    /\ (SingleItem /\ output.kind = "impl" /\ ItemTrim) => LinesTrimmed(output.DOCS)
    /\ (input.derive = "documented_fields" /\ output.kind = "impl") =>
           \A i \in 1..Len(Members) :
               (IsDocumented(Members[i].attrs) /\ EffectiveTrim(Members[i].attrs))
                   => LinesTrimmed(Unwrap(output.FIELD_DOCS[i]))
    /\ (input.derive = "documented_variants" /\ output.kind = "impl") =>
           \A i \in 1..Len(Members) :
               (IsDocumented(Members[i].attrs) /\ EffectiveTrim(Members[i].attrs))
                   => LinesTrimmed(output.match_arms[i].body.val)

(***************************************************************************)
(* C5.  With the effective trim flag false, the normalised documentation   *)
(* is the payloads as written, joined by a newline: nothing added, nothing *)
(* removed.                                                                *)
(***************************************************************************)
C5_UntrimmedIsVerbatim ==
    /\ (SingleItem /\ output.kind = "impl" /\ ~ItemTrim) =>
           output.DOCS = RawJoin(input.attrs)
    /\ (input.derive = "documented_fields" /\ output.kind = "impl") =>
           \A i \in 1..Len(Members) :
               (IsDocumented(Members[i].attrs) /\ ~EffectiveTrim(Members[i].attrs))
                   => output.FIELD_DOCS[i] = Some(RawJoin(Members[i].attrs))
    /\ (input.derive = "documented_variants" /\ output.kind = "impl") =>
           \A i \in 1..Len(Members) :
               (IsDocumented(Members[i].attrs) /\ ~EffectiveTrim(Members[i].attrs))
                   => output.match_arms[i].body = OkResult(RawJoin(Members[i].attrs))

\* derive(Documented) with trim = false on a payload that starts with a
\* space and holds two lines: the space and the line break are kept.
C5_Witness ==
    /\ input.derive = "documented"
    /\ output.kind = "impl"
    /\ ~ItemTrim
    /\ output.DOCS = <<" ", "a", "\n">>

C6_WitnessUnnamed ==
    /\ input.derive = "documented_fields"
    /\ input.shape = "tuple"
    /\ output.kind = "impl"
    /\ Len(output.FIELD_DOCS) = 2
    /\ output.PHF = {}

(***************************************************************************)
(* C7.  The documentation is built from all doc fragments in declaration   *)
(* order, joined by a newline; it is the same whichever form supplied each *)
(* line (a line of its own attribute, or one line of a multi-line          *)
(* payload), and attributes that are no documentation do not affect it.    *)
(***************************************************************************)
\* The lines of a payload, one attribute each.
OneAttrPerLine(a) ==
    IF a.lit
    THEN LET lines == Split(a.value) IN [i \in 1..Len(lines) |-> DocAttr(lines[i])]
    ELSE <<a>>

RECURSIVE LineByLine(_)
LineByLine(attrs) ==
    IF attrs = <<>> THEN <<>>
    ELSE LET a == Head(attrs) IN
         IF a.path = "doc" /\ a.meta = "NameValue"
         THEN OneAttrPerLine(a) \o LineByLine(Tail(attrs))
         ELSE IF a.path = input.derive
         THEN <<a>> \o LineByLine(Tail(attrs))
         ELSE LineByLine(Tail(attrs))

\* The same declaration with every line of documentation in an attribute
\* of its own and nothing but documentation and directives on it.
Rewritten == [input EXCEPT !.attrs = LineByLine(input.attrs)]

ExpansionOf(inp) ==
    CASE inp.derive = "proc_macro_documented" -> proc_macro_documented(inp)
      [] inp.derive = "documented" -> documented(inp)
      [] OTHER -> docs_const(inp)

C7_FormIndependent ==
    (SingleItem /\ Expanded) =>
        LET other == ExpansionOf(Rewritten) IN
        /\ output.kind = other.kind
        /\ output.msg = other.msg
        /\ output.DOCS = other.DOCS

(***************************************************************************)
(* C8.  get_variant_docs on any value of the enum answers Ok(normalised    *)
(* docs of the value's variant) if that variant is documented and          *)
(* Err(NoDocComments(variant name)) if not; there is one arm per declared  *)
(* variant, so some arm always matches and it is the variant's own.        *)
(***************************************************************************)
C8_GetVariantDocs ==
    /\ (input.derive = "documented_variants" /\ output.kind = "impl") =>
           Len(output.match_arms) = Len(Members)
    /\ VariantQuery =>
           /\ Named(query.name) # {}
           /\ \A i \in Named(query.name) :
                  IF IsDocumented(Members[i].attrs)
                  THEN result = OkResult(Unwrap(MemberDocs(i)))
                  ELSE result = ErrResult("NoDocComments", query.name)

\* A value of an undocumented tuple or struct-like variant that is declared
\* after a documented variant.
C8_Witness ==
    /\ VariantQuery
    /\ Unwrap(query.self).fields # "Unit"
    /\ result = ErrResult("NoDocComments", "second")
    /\ IsDocumented(Members[1].attrs)

\* A value of a documented variant declared after another documented one
\* with other documentation.
C8_WitnessOk ==
    /\ VariantQuery
    /\ query.name = "second"
    /\ result.tag = "Ok"
    /\ output.match_arms[1].body.tag = "Ok"
    /\ output.match_arms[1].body # result

(***************************************************************************)
(* C9.  derive(Documented) on a type and docs_const on an item require     *)
(* documentation: on a declaration without any doc fragment (and with      *)
(* well-formed configuration) they fail with the missing-documentation     *)
(* error and emit no DOCS constant.  A member without documentation is no  *)
(* error for DocumentedFields and DocumentedVariants: on a declaration of  *)
(* a shape they accept, with well-formed directives and string-literal     *)
(* payloads, they emit the implementation.                                 *)
(***************************************************************************)
\* A directive named h whose options the derive rejects.
Malformed(a, h) ==
    /\ a.path = h
    /\ \/ \E j \in 1..Len(a.opts) :
             \/ a.opts[j].key \notin {"trim", "default"}
             \/ a.opts[j].key = "trim" /\ a.opts[j].type # "bool"
             \/ a.opts[j].key = "default" /\ a.opts[j].type # "str"
       \/ \E j, k \in 1..Len(a.opts) : j # k /\ a.opts[j].key = a.opts[k].key

HasMalformed(attrs) == \E i \in 1..Len(attrs) : Malformed(attrs[i], input.derive)

HasNonLiteral(attrs) ==
    \E i \in 1..Len(attrs) :
        attrs[i].path = "doc" /\ attrs[i].meta = "NameValue" /\ ~attrs[i].lit

\* The arguments of docs_const are well formed.
ArgsWellFormed ==
    /\ \A j \in 1..Len(input.args) :
           \/ input.args[j].key = "trim" /\ input.args[j].type = "bool"
           \/ input.args[j].key = "name" /\ input.args[j].type = "str"
           \/ input.args[j].key = "vis" /\ input.args[j].type = "vis"
    /\ \A j, k \in 1..Len(input.args) :
           j # k => input.args[j].key # input.args[k].key

MissingDocs == {"Missing doc comments", "No doc comment found on this type"}

C9_MissingDocumentation ==
    /\ (SingleItem /\ Expanded /\ ~IsDocumented(input.attrs)
            /\ ~HasMalformed(input.attrs) /\ ArgsWellFormed) =>
           /\ output = compile_error(output.msg)
           /\ output.msg \in MissingDocs
    /\ (input.derive \in {"documented_fields", "documented_variants"} /\ Expanded
            /\ (input.derive = "documented_variants" => input.shape = "enum")
            /\ ~HasMalformed(input.attrs)
            /\ \A i \in 1..Len(Members) :
                   ~HasMalformed(Members[i].attrs) /\ ~HasNonLiteral(Members[i].attrs)) =>
           output.kind = "impl"

\* derive(Documented) has run on a type that carries only attributes that
\* are no documentation.
C9_Witness ==
    /\ input.derive = "documented"
    /\ Expanded
    /\ input.attrs # <<>>
    /\ ~IsDocumented(input.attrs)
    /\ output.msg = "Missing doc comments"

\* docs_const has run on an undocumented item.
C9_WitnessDocsConst ==
    /\ input.derive = "docs_const"
    /\ Expanded
    /\ ~IsDocumented(input.attrs)
    /\ output.msg = "Missing doc comments"

\* DocumentedVariants has generated arms for an enum with an undocumented
\* variant.
C9_WitnessMember ==
    /\ input.derive = "documented_variants"
    /\ output.kind = "impl"
    /\ \E i \in 1..Len(Members) : ~IsDocumented(Members[i].attrs)

(***************************************************************************)
(* C10.  If the container's directive is malformed, or a member's directive *)
(* is malformed, or a member's doc payload is no string literal, the whole *)
(* expansion is one compile error, that of the first offending attribute,  *)
(* and nothing else: no FIELD_DOCS, no table, nothing for the members      *)
(* processed before the failing one.                                       *)
(***************************************************************************)
DirectiveErrors ==
    {"unknown option", "duplicate option", "expected a boolean literal",
     "expected a string literal"}

MemberFails(i) == HasMalformed(Members[i].attrs) \/ HasNonLiteral(Members[i].attrs)

HasAnalysisError ==
    HasMalformed(input.attrs) \/ \E i \in 1..Len(Members) : MemberFails(i)

ExpectedErrors ==
    IF HasMalformed(input.attrs) THEN DirectiveErrors
    ELSE IF input.derive = "documented_variants" /\ input.shape # "enum"
    THEN {"DocumentedVariants can only be used on enums"}
    ELSE LET first == CHOOSE i \in 1..Len(Members) :
                          MemberFails(i) /\ \A j \in 1..(i - 1) : ~MemberFails(j)
         IN  IF HasMalformed(Members[first].attrs) THEN DirectiveErrors
             ELSE {"Doc comment is not a string literal"}

C10_NoPartialOutput ==
    (input.derive \in {"documented_fields", "documented_variants"} /\ Expanded
        /\ HasAnalysisError) =>
        /\ output = compile_error(output.msg)
        /\ output.msg \in ExpectedErrors

\* The first member is documented and well formed, a later one fails.
C10_Witness ==
    /\ input.derive = "documented_fields"
    /\ Expanded
    /\ Len(Members) >= 2
    /\ IsDocumented(Members[1].attrs)
    /\ ~MemberFails(1)
    /\ MemberFails(2)
    /\ output.kind = "compile_error"

(***************************************************************************)
(* C11.  derive(DocumentedVariants) on a struct or a union expands to a    *)
(* compile error and to nothing else, so no get_variant_docs is emitted;   *)
(* unless a directive on the declaration is itself malformed (reported     *)
(* first), the error is the one about the unsupported shape, whatever the  *)
(* members carry.  derive(DocumentedFields) never reports the shape: on a  *)
(* struct, a tuple struct, a union or an enum free of analysis errors it   *)
(* emits the implementation, one FIELD_DOCS entry per member.              *)
(***************************************************************************)
UnsupportedShape == "DocumentedVariants can only be used on enums"

C11_UnsupportedShape ==
    /\ (input.derive = "documented_variants" /\ input.shape # "enum" /\ Expanded) =>
           /\ output = compile_error(output.msg)
           /\ output.match_arms = <<>>
           /\ ~HasMalformed(input.attrs) => output.msg = UnsupportedShape
    /\ (input.derive = "documented_fields" /\ Expanded) =>
           /\ output.msg # UnsupportedShape
           /\ ~HasAnalysisError =>
                  /\ output.kind = "impl"
                  /\ output.trait = "DocumentedFields"
                  /\ Len(output.FIELD_DOCS) = Len(Members)

\* A union with a documented member, derived as DocumentedVariants.
C11_Witness ==
    /\ input.derive = "documented_variants"
    /\ input.shape = "union"
    /\ Expanded
    /\ ~HasMalformed(input.attrs)
    /\ Len(Members) >= 1
    /\ IsDocumented(Members[1].attrs)
    /\ output.msg = UnsupportedShape

\* A union accepted by derive(DocumentedFields).
C11_WitnessFields ==
    /\ input.derive = "documented_fields"
    /\ input.shape = "union"
    /\ Expanded
    /\ output.kind = "impl"
    /\ Len(output.FIELD_DOCS) >= 1

(***************************************************************************)
(* C12.  When docs_const emits its constant, the constant is named by the  *)
(* name argument if there is one and otherwise by the item's name in upper *)
(* snake case followed by _DOCS; its visibility is the vis argument if     *)
(* there is one and otherwise the item's own; the item is emitted as it    *)
(* was written; and the constant's value is the item's documentation, line *)
(* by line trimmed unless trim = false.  The constant is emitted whenever  *)
(* the arguments are well formed, the item is documented by string         *)
(* literals and the chosen name is an identifier.                          *)
(***************************************************************************)
HasArg(k) == \E j \in 1..Len(input.args) : input.args[j].key = k

ArgValue(k) == input.args[CHOOSE j \in 1..Len(input.args) : input.args[j].key = k].s

\* The item names of the model in upper snake case.
UpperSnake(n) ==
    CASE n = <<"a", "_", "b">> -> <<"A", "_", "B">>
      [] n = <<"A", "a">>      -> <<"A", "A">>
      [] n = <<"a", "B">>      -> <<"A", "_", "B">>
      [] n = <<"_", "a">>      -> <<"A">>

\* Every line of the fragments trimmed on its own.
TrimmedJoin(attrs) ==
    LET lines == Split(RawJoin(attrs)) IN
    Join([i \in 1..Len(lines) |-> Trim(lines[i])])

C12_DocsConst ==
    /\ (input.derive = "docs_const" /\ output.kind = "impl") =>
           /\ output.const_name =
                  IF HasArg("name") THEN ArgValue("name")
                  ELSE UpperSnake(input.ident) \o <<"_", "D", "O", "C", "S">>
           /\ output.const_vis =
                  IF HasArg("vis") THEN ArgValue("vis")[1] ELSE input.vis
           /\ output.item = Some([ident |-> input.ident, vis |-> input.vis,
                                  attrs |-> input.attrs])
           /\ output.DOCS = IF ItemTrim THEN TrimmedJoin(input.attrs)
                                        ELSE RawJoin(input.attrs)
    /\ (input.derive = "docs_const" /\ Expanded /\ ArgsWellFormed
            /\ IsDocumented(input.attrs) /\ ~HasNonLiteral(input.attrs)
            /\ (HasArg("name") => IsIdent(ArgValue("name")))) =>
           output.kind = "impl"

\* An item named in camel case, private, documented over several lines,
\* with vis = pub and no name argument.
C12_Witness ==
    /\ input.derive = "docs_const"
    /\ output.kind = "impl"
    /\ input.ident = <<"a", "B">>
    /\ input.vis = "inherited"
    /\ HasArg("vis")
    /\ ~HasArg("name")
    /\ Len(Fragments(input.attrs)) >= 2
    /\ output.const_vis = "pub"
    /\ output.const_name = <<"A", "_", "B", "_", "D", "O", "C", "S">>

\* The name argument given.
C12_WitnessName ==
    /\ input.derive = "docs_const"
    /\ output.kind = "impl"
    /\ HasArg("name")
    /\ input.vis = "pub"
    /\ output.const_name = <<"B">>

(***************************************************************************)
(* C13.  On a declaration whose directives are well formed, the collection *)
(* of the doc fragments is reached, and it fails with the error "Doc       *)
(* comment is not a string literal" if and only if some doc = <value>      *)
(* attribute of the declaration has a value that is no string literal:     *)
(* wherever that attribute stands among the others, and whatever valid     *)
(* fragments stand before or after it.  The same holds for the members of  *)
(* a container, taken in declaration order.                                *)
(***************************************************************************)
NotAStringLiteral == "Doc comment is not a string literal"

C13_NotAStringLiteral ==
    /\ (SingleItem /\ Expanded /\ ~HasMalformed(input.attrs) /\ ArgsWellFormed) =>
           (output.msg = NotAStringLiteral <=> HasNonLiteral(input.attrs))
    /\ (SingleItem /\ Expanded /\ HasNonLiteral(input.attrs)
            /\ ~HasMalformed(input.attrs) /\ ArgsWellFormed) =>
           output = compile_error(NotAStringLiteral)
    /\ (input.derive \in {"documented_fields", "documented_variants"} /\ Expanded
            /\ (input.derive = "documented_variants" => input.shape = "enum")
            /\ ~HasMalformed(input.attrs)
            /\ \A i \in 1..Len(Members) : ~HasMalformed(Members[i].attrs)) =>
           (output.msg = NotAStringLiteral
                <=> \E i \in 1..Len(Members) : HasNonLiteral(Members[i].attrs))

\* The first-generation derive on a type whose first fragment is a valid
\* string literal and whose last attribute is a doc attribute with another
\* kind of value.
C13_Witness ==
    /\ input.derive = "proc_macro_documented"
    /\ Expanded
    /\ Len(input.attrs) >= 3
    /\ input.attrs[1].path = "doc" /\ input.attrs[1].lit
    /\ input.attrs[1].value # <<>>
    /\ LET last == input.attrs[Len(input.attrs)] IN
           last.path = "doc" /\ last.meta = "NameValue" /\ ~last.lit
    /\ output = compile_error(NotAStringLiteral)

\* derive(Documented) on a type whose non-literal fragment comes first.
C13_WitnessFirst ==
    /\ input.derive = "documented"
    /\ Expanded
    /\ Len(Fragments(input.attrs)) >= 2
    /\ ~Fragments(input.attrs)[1].lit
    /\ Fragments(input.attrs)[2].lit
    /\ output = compile_error(NotAStringLiteral)

====
